---------------------------- MODULE Spec2Model ----------------------------
(***************************************************************************)
(* termodoro: an analog clock drawn from terminal cells, driven by a       *)
(* work / break session timer.                                             *)
(*                                                                         *)
(* Four specifications share the definitions below:                        *)
(*   Spec         the main loop of termodoro.py (main, SessionDisplay)     *)
(*   SpecSession  the SessionState object under arbitrary calls            *)
(*   SpecClock    the Clock timer under arbitrary calls and passing time   *)
(*   SpecGeom     the static geometry functions applied to bounded inputs  *)
(*                                                                         *)
(* Time is counted in clock ticks, NANO_PER_SECOND ticks to the second.    *)
(* A slope is NaN or a number of millionths, and a distance is compared    *)
(* through its square: for the angles tabulated in MicroTan the cells      *)
(* selected are those the float arithmetic of the program selects.         *)
(***************************************************************************)
EXTENDS Integers, Sequences, FiniteSets

VARIABLES
    config,         \* main: the configured minutes and before-long rounds
    display,        \* SessionDisplay: the four show_* flags
    state,          \* SessionState: its private fields
    clock,          \* Clock: start_time and nano_seconds
    now,            \* time.time_ns(), in ticks
    is_working,     \* main: the phase flag
    duration,       \* main: the duration fetched for the current phase
    pc,             \* main: position in the loop
    terminal,       \* the (height, width) getmaxyx returned to the last redraw
    frame,          \* the writes made to the screen by the last redraw
    error,          \* whether the last redraw raised curses.error
    phase_log,      \* history: the phases entered so far, in order
    call,           \* the last call made on an object and what it returned
    last_remaining, \* history: the last seconds_remaining() of the phase
    arg_diameter,   \* geometry input: the clock diameter
    arg_elapsed     \* geometry input: percent_elapsed, in 24ths

vars == <<config, display, state, clock, now, is_working, duration, pc,
          terminal, frame, error, phase_log, call, last_remaining,
          arg_diameter, arg_elapsed>>

mainVars == <<is_working, duration, pc, terminal, frame, error, phase_log>>
geomVars == <<arg_diameter, arg_elapsed>>

---------------------------------------------------------------------------
(* Bounds of the model *)

\* clock ticks per second (the program counts 10^9; the arithmetic is the same)
NANO_PER_SECOND == 4
\* SpecSession: minutes given to the constructor range over 0..MaxMinutes
MaxMinutes == 2
\* SpecSession: before_long ranges over 1..MaxBeforeLong
MaxBeforeLong == 4
\* rounds are counted up to MaxRound
MaxRound == 8
\* SpecClock: durations range over 0..MaxSeconds, time over 0..MaxTicks ticks
MaxSeconds == 2
MaxTicks == 14
\* SpecGeom: diameters range over 0..MaxDiameter
MaxDiameter == 10

NoCall == [op |-> "none"]

---------------------------------------------------------------------------
(* SessionState *)

\* the constructor with the two break durations stored where they are named
SessionState_unswapped(work_duration, short_duration, long_duration, before_long) ==
    [before_long    |-> before_long,
     work_duration  |-> work_duration * 60,
     short_duration |-> short_duration * 60,
     long_duration  |-> long_duration * 60,
     round          |-> 0]

SessionState(work_duration, short_duration, long_duration, before_long) ==
    [before_long    |-> before_long,
     work_duration  |-> work_duration * 60,
     short_duration |-> long_duration * 60,
     long_duration  |-> short_duration * 60,
     round          |-> 0]

get_work(self) == self.work_duration

\* next_long counting down to 0 instead of to 1
next_long_to_zero(self) ==
    self.before_long - 1
        - (self.round - (self.round \div self.before_long) * self.before_long)

\* (the line next_long appends to the file "out" is not part of the state)
next_long(self) ==
    self.before_long
        - (self.round - (self.round \div self.before_long) * self.before_long)

get_break(self) ==
    IF next_long(self) = 0 THEN self.long_duration ELSE self.short_duration

completed(self) == self.round

\* increment skipping a round
increment_twice(self) == [self EXCEPT !.round = @ + 2]

increment(self) == [self EXCEPT !.round = @ + 1]

---------------------------------------------------------------------------
(* Arithmetic the code takes from Python and the math module *)

Max(a, b) == IF a >= b THEN a ELSE b
Abs(a) == IF a >= 0 THEN a ELSE -a

\* math.ceil(a / b) for an integer a of either sign and b > 0
Ceil(a, b) == -((-a) \div b)

\* range(a, b) as the sequence a, a+1, ..., b-1
Range(a, b) == [i \in 1..Max(0, b - a) |-> a + i - 1]

\* len(f"{n}") for n >= 0
RECURSIVE Digits(_)
Digits(n) == IF n < 10 THEN 1 ELSE 1 + Digits(n \div 10)

\* len(f"{n:02}")
Digits02(n) == Max(2, Digits(n))

\* a float: NaN, or a number counted in millionths
NaN == [nan |-> TRUE]
Finite(m) == [nan |-> FALSE, micro |-> m]
FloatOf(i) == Finite(i * 1000000)

\* ==, < and > on floats: every comparison with NaN is false, NaN == NaN too
FloatEq(a, b) == ~a.nan /\ ~b.nan /\ a.micro = b.micro
FloatLt(a, b) == ~a.nan /\ ~b.nan /\ a.micro < b.micro
FloatGt(a, b) == FloatLt(b, a)

FloatNeg(a) == IF a.nan THEN NaN ELSE Finite(-a.micro)
FloatAbs(a) == IF a.nan THEN NaN ELSE Finite(Abs(a.micro))
FloatAdd(a, b) == IF a.nan \/ b.nan THEN NaN ELSE Finite(a.micro + b.micro)
FloatSub(a, b) == IF a.nan \/ b.nan THEN NaN ELSE Finite(a.micro - b.micro)
\* an int times a float
FloatMul(i, a) == IF a.nan THEN NaN ELSE Finite(i * a.micro)

\* math.tan(math.radians(deg)) in millionths, rounded toward zero, for the
\* angles the model's inputs produce (tan 45 is 0.9999999999999999 in floats)
MicroTan(deg) ==
    CASE deg = 0  -> 0
      [] deg = 15 -> 267949
      [] deg = 30 -> 577350
      [] deg = 45 -> 999999
      [] deg = 60 -> 1732050
      [] deg = 75 -> 3732050

\* math.tan(math.radians(n / den)) for an angle n / den of whole degrees
TanDegrees(n, den) ==
    Finite(MicroTan(CHOOSE q \in 0..90 : q * den = n))

\* h/2 < math.sqrt(n) and math.sqrt(n) < h/2, for integers h and n >= 0
HalfLtSqrt(h, n) == h < 0 \/ h * h < 4 * n
SqrtLtHalf(n, h) == h > 0 /\ 4 * n < h * h

---------------------------------------------------------------------------
(* Clock: the timer *)

Coordinate(x, y) == [x |-> x, y |-> y]

\* Clock(seconds, hand_length) constructed at time t; hand_length in hundredths
Clock(seconds, hand_length, t) ==
    [start_time   |-> t,
     nano_seconds |-> seconds * NANO_PER_SECOND,
     hand_length  |-> hand_length]

is_done(self, t) == t - self.start_time >= self.nano_seconds

reset(self, t) == [self EXCEPT !.start_time = t]

set_duration(self, seconds) ==
    [self EXCEPT !.nano_seconds = seconds * NANO_PER_SECOND]

\* seconds_remaining rounding the remaining time down instead of up
seconds_remaining_floor(self, t) ==
    Max(0, (self.nano_seconds - (t - self.start_time)) \div NANO_PER_SECOND)

seconds_remaining(self, t) ==
    LET elapsed == t - self.start_time
    IN  Max(0, Ceil(self.nano_seconds - elapsed, NANO_PER_SECOND))

---------------------------------------------------------------------------
(* Clock: the geometry *)

\* math.sqrt((x - radius) ** 2 + (y - radius) ** 2), as its square
center_distance2(x, y, radius) ==
    (x - radius) * (x - radius) + (y - radius) * (y - radius)

\* the slope for the shifted angle degrees / den, whose first-quadrant
\* equivalent is first_quad_eq_degrees / den
slope_of(degrees, first_quad_eq_degrees, den) ==
    IF degrees <= 90 * den \/ (180 * den <= degrees /\ degrees <= 270 * den)
    THEN IF first_quad_eq_degrees # 90 * den
         THEN FloatNeg(TanDegrees(first_quad_eq_degrees, den))
         ELSE NaN
    ELSE IF first_quad_eq_degrees # 0
         THEN TanDegrees(90 * den - first_quad_eq_degrees, den)
         ELSE NaN

\* degrees += 90 if degrees <= 270 else -270, for the angle degrees / den
shifted(degrees, den) ==
    IF degrees <= 270 * den THEN degrees + 90 * den ELSE degrees - 270 * den

\* degrees - degrees // 90 * 90, for the angle degrees / den
first_quad_eq(degrees, den) ==
    degrees - (degrees \div (90 * den)) * (90 * den)

\* the slope of the hand for percent_elapsed = num / den
get_slope(num, den) ==
    slope_of(shifted(360 * num, den),
             first_quad_eq(shifted(360 * num, den), den), den)

\* the rim scanned over range(diameter), one row and one column short
clock_coordinates_short(diameter) ==
    LET radius == diameter \div 2
        grid == [i \in 1..(diameter * diameter) |->
                    Coordinate((i - 1) % diameter, (i - 1) \div diameter)]
        OnRim(c) ==
            LET distance2 == center_distance2(c.x, c.y, radius)
            IN  /\ HalfLtSqrt(2 * radius - 1, distance2)
                /\ SqrtLtHalf(distance2, 2 * radius + 1)
    IN  <<Coordinate(radius, radius)>> \o SelectSeq(grid, OnRim)

clock_coordinates(diameter) ==
    LET radius == diameter \div 2
        \* for y in range(diameter + 1): for x in range(diameter + 1)
        grid == [i \in 1..((diameter + 1) * (diameter + 1)) |->
                    Coordinate((i - 1) % (diameter + 1),
                               (i - 1) \div (diameter + 1))]
        \* radius - tolerance < distance < radius + tolerance, tolerance = .5
        OnRim(c) ==
            LET distance2 == center_distance2(c.x, c.y, radius)
            IN  /\ HalfLtSqrt(2 * radius - 1, distance2)
                /\ SqrtLtHalf(distance2, 2 * radius + 1)
    IN  <<Coordinate(radius, radius)>> \o SelectSeq(grid, OnRim)

\* for x in x_range: for y in y_range, as the sequence of cells visited
scan(x_range, y_range) ==
    [i \in 1..(Len(x_range) * Len(y_range)) |->
        Coordinate(x_range[((i - 1) \div Len(y_range)) + 1],
                   y_range[((i - 1) % Len(y_range)) + 1])]

\* the test a scanned cell passes to be part of the hand
on_hand(c, radius, hand_length, slope, tolerance) ==
    /\ \/ FloatEq(slope, NaN)
       \/ /\ FloatLt(FloatSub(FloatOf(radius - c.y), tolerance),
                     FloatMul(c.x - radius, slope))
          /\ FloatLt(FloatMul(c.x - radius, slope),
                     FloatAdd(FloatOf(radius - c.y), tolerance))
    \* distance < radius * hand_length + .5, times 100 and squared
    /\ radius * hand_length + 50 > 0
    /\ 10000 * center_distance2(c.x, c.y, radius)
           < (radius * hand_length + 50) * (radius * hand_length + 50)

\* the quadrant searched for percent_elapsed = num / den
quadrant(num, den) ==
    IF 4 * num <= den \/ num = den THEN 1
    ELSE IF 2 * num <= den THEN 2
    ELSE IF 4 * num <= 3 * den THEN 3
    ELSE 4

\* the hand of the given slope, searched in quadrant q
hand_search(diameter, radius, hand_length, q, slope) ==
    LET y_range == IF q \in {1, 4} THEN Range(0, radius + 1)
                                   ELSE Range(radius, diameter + 1)
        x_range == IF FloatEq(slope, NaN) THEN Range(radius, radius + 1)
                   ELSE IF q \in {1, 2} THEN Range(radius, diameter + 1)
                   ELSE Range(0, radius + 1)
        tolerance == IF FloatGt(FloatAbs(slope), Finite(500000))
                     THEN FloatAbs(slope) ELSE Finite(500000)
        OnHand(c) == on_hand(c, radius, hand_length, slope, tolerance)
    IN  SelectSeq(scan(x_range, y_range), OnHand)

\* the hand for percent_elapsed = num / den
hand_cells(diameter, hand_length, num, den) ==
    hand_search(diameter, diameter \div 2, hand_length, quadrant(num, den),
                get_slope(num, den))

hand_coordinates(self, t, diameter) ==
    LET time_elapsed == t - self.start_time
    IN  \* percent_elapsed = min(time_elapsed / nano_seconds, 1.0)
        IF time_elapsed >= self.nano_seconds
        THEN hand_cells(diameter, self.hand_length, 1, 1)
        ELSE hand_cells(diameter, self.hand_length, time_elapsed, self.nano_seconds)

coordinates(self, t, diameter) ==
    IF ~is_done(self, t)
    THEN clock_coordinates(diameter) \o hand_coordinates(self, t, diameter)
    ELSE clock_coordinates(diameter)

---------------------------------------------------------------------------
(* ClockProvider of pomo.py: the same geometry for a clock of a given radius *)

\* ClockProvider(radius, seconds) constructed at time t
ClockProvider(radius, seconds, t) ==
    [radius       |-> radius,
     diameter     |-> radius * 2 + 1,
     start_time   |-> t,
     nano_seconds |-> seconds * NANO_PER_SECOND]

perimeter_coordinates(self) ==
    LET \* for y in range(diameter): for x in range(diameter)
        grid == [i \in 1..(self.diameter * self.diameter) |->
                    Coordinate((i - 1) % self.diameter, (i - 1) \div self.diameter)]
        OnRim(c) ==
            LET distance2 == center_distance2(c.x, c.y, self.radius)
            IN  /\ HalfLtSqrt(2 * self.radius - 1, distance2)
                /\ SqrtLtHalf(distance2, 2 * self.radius + 1)
    IN  <<Coordinate(self.radius, self.radius)>> \o SelectSeq(grid, OnRim)

\* the hand of the provider, hand_length = radius * .5, at time t
provider_hand_coordinates(self, t) ==
    IF t - self.start_time < self.nano_seconds
    THEN hand_search(self.diameter, self.radius, 50,
                     quadrant(t - self.start_time, self.nano_seconds),
                     get_slope(t - self.start_time, self.nano_seconds))
    ELSE hand_search(self.diameter, self.radius, 50, quadrant(1, 1),
                     get_slope(1, 1))


---------------------------------------------------------------------------
(* Values of the variables a specification does not use *)

DefaultConfig ==
    [work_duration |-> 30, short_duration |-> 5, long_duration |-> 15,
     before_long |-> 4]

DefaultDisplay ==
    [show_completed |-> TRUE, show_next_long |-> TRUE, show_digital |-> TRUE,
     show_analog |-> TRUE]

MainIdle ==
    /\ is_working = TRUE
    /\ duration = 0
    /\ pc = "idle"
    /\ terminal = <<0, 0>>
    /\ frame = <<>>
    /\ error = FALSE
    /\ phase_log = <<>>

GeomIdle ==
    /\ arg_diameter = 0
    /\ arg_elapsed = 0

---------------------------------------------------------------------------
(* SpecSession: a SessionState under arbitrary calls *)

SessionConfigs ==
    [work_duration : 0..MaxMinutes, short_duration : 0..MaxMinutes,
     long_duration : 0..MaxMinutes, before_long : 1..MaxBeforeLong]

InitSession ==
    /\ config \in SessionConfigs
    /\ state = SessionState(config.work_duration, config.short_duration,
                            config.long_duration, config.before_long)
    /\ call = NoCall
    /\ display = DefaultDisplay
    /\ clock = Clock(0, 50, 0)
    /\ now = 0
    /\ last_remaining = <<>>
    /\ MainIdle
    /\ GeomIdle

SessionReturn(op, ret) ==
    /\ call' = [op |-> op, ret |-> ret]
    /\ UNCHANGED <<config, display, state, clock, now, last_remaining,
                   mainVars, geomVars>>

SessionGetWork == SessionReturn("get_work", get_work(state))

SessionGetBreak == SessionReturn("get_break", get_break(state))

SessionNextLong == SessionReturn("next_long", next_long(state))

SessionCompleted == SessionReturn("completed", completed(state))

SessionIncrement ==
    /\ state.round < MaxRound
    /\ state' = increment(state)
    /\ call' = [op |-> "increment"]
    /\ UNCHANGED <<config, display, clock, now, last_remaining,
                   mainVars, geomVars>>

NextSession ==
    \/ SessionGetWork
    \/ SessionGetBreak
    \/ SessionNextLong
    \/ SessionCompleted
    \/ SessionIncrement

SpecSession == InitSession /\ [][NextSession]_vars

---------------------------------------------------------------------------
(* SpecClock: a Clock under arbitrary calls, with the wall clock advancing *)

InitClock ==
    /\ now = 0
    /\ \E seconds \in 0..MaxSeconds : clock = Clock(seconds, 50, now)
    /\ call = NoCall
    /\ last_remaining = <<>>
    /\ config = DefaultConfig
    /\ display = DefaultDisplay
    /\ state = SessionState(0, 0, 0, 1)
    /\ MainIdle
    /\ GeomIdle

ClockIsDone ==
    /\ call' = [op |-> "is_done", at |-> now, ret |-> is_done(clock, now)]
    /\ UNCHANGED <<config, display, state, clock, now, last_remaining,
                   mainVars, geomVars>>

ClockSecondsRemaining ==
    /\ call' = [op |-> "seconds_remaining", at |-> now,
                ret |-> seconds_remaining(clock, now),
                prev |-> last_remaining]
    /\ last_remaining' = <<seconds_remaining(clock, now)>>
    /\ UNCHANGED <<config, display, state, clock, now, mainVars, geomVars>>

ClockReset ==
    /\ clock' = reset(clock, now)
    /\ call' = [op |-> "reset", at |-> now]
    /\ last_remaining' = <<>>
    /\ UNCHANGED <<config, display, state, now, mainVars, geomVars>>

ClockSetDuration ==
    \E seconds \in 0..MaxSeconds :
        /\ clock' = set_duration(clock, seconds)
        /\ call' = [op |-> "set_duration", at |-> now]
        /\ last_remaining' = <<>>
        /\ UNCHANGED <<config, display, state, now, mainVars, geomVars>>

\* the wall clock never goes back
TimePasses ==
    \E ticks \in 1..NANO_PER_SECOND :
        /\ now + ticks <= MaxTicks
        /\ now' = now + ticks
        /\ UNCHANGED <<config, display, state, clock, call, last_remaining,
                       mainVars, geomVars>>

NextClock ==
    \/ ClockIsDone
    \/ ClockSecondsRemaining
    \/ ClockReset
    \/ ClockSetDuration
    \/ TimePasses

SpecClock == InitClock /\ [][NextClock]_vars

---------------------------------------------------------------------------
(* SpecGeom: the geometry functions applied to bounded inputs *)

InitGeom ==
    /\ arg_diameter \in 0..MaxDiameter
    /\ arg_elapsed \in 0..24
    /\ call = NoCall
    /\ config = DefaultConfig
    /\ display = DefaultDisplay
    /\ state = SessionState(0, 0, 0, 1)
    /\ clock = Clock(0, 50, 0)
    /\ now = 0
    /\ last_remaining = <<>>
    /\ MainIdle

GeomReturn(ret) ==
    /\ call' = ret
    /\ UNCHANGED <<config, display, state, clock, now, last_remaining,
                   mainVars, geomVars>>

GeomGetSlope ==
    GeomReturn([op |-> "get_slope", ret |-> get_slope(arg_elapsed, 24)])

GeomClockCoordinates ==
    GeomReturn([op |-> "clock_coordinates",
                ret |-> clock_coordinates(arg_diameter)])

GeomHandCoordinates ==
    GeomReturn([op |-> "hand_coordinates",
                slope |-> get_slope(arg_elapsed, 24),
                ret |-> hand_cells(arg_diameter, 50, arg_elapsed, 24)])

\* pomo.py: the perimeter and the hand of a ClockProvider of diameter
\* arg_diameter and a duration of 24 ticks, arg_elapsed ticks after its start
GeomProvider ==
    /\ arg_diameter % 2 = 1
    /\ GeomReturn(
           LET provider == [ClockProvider(arg_diameter \div 2, 0, 0)
                               EXCEPT !.nano_seconds = 24]
           IN  [op |-> "provider",
                perimeter |-> perimeter_coordinates(provider),
                slope |-> get_slope(arg_elapsed, 24),
                hand |-> provider_hand_coordinates(provider, arg_elapsed)])

NextGeom ==
    \/ GeomGetSlope
    \/ GeomClockCoordinates
    \/ GeomHandCoordinates
    \/ GeomProvider

SpecGeom == InitGeom /\ [][NextGeom]_vars


---------------------------------------------------------------------------
(* Properties of SessionState, checked under SpecSession *)

\* C1: get_break() returns the configured long-break duration (long_duration
\* minutes * 60) if next_long() = 0, and otherwise the configured short-break
\* duration (short_duration minutes * 60), for every configuration and every
\* round count reached through increment().
C1_BreakMatchesConfig ==
    call.op = "get_break" =>
        call.ret = IF next_long(state) = 0 THEN config.long_duration * 60
                                           ELSE config.short_duration * 60

\* C4: the values of next_long() over the rounds 0, 1, 2, ... are
\* before_long - (round mod before_long); they repeat with period before_long,
\* and every window of before_long consecutive rounds holds exactly one round
\* of remainder 0, where the value is before_long.
C4_NextLongCycle ==
    LET before_long == state.before_long
        At(r) == next_long([state EXCEPT !.round = r])
        reached == 0..state.round
    IN  /\ call.op = "next_long" =>
               call.ret = before_long - (state.round % before_long)
        /\ \A r \in reached : At(r) = before_long - (r % before_long)
        /\ \A r \in reached :
               r + before_long \in reached => At(r + before_long) = At(r)
        /\ \A w \in reached :
               w + before_long - 1 \in reached =>
                   LET due == {r \in w..(w + before_long - 1) : r % before_long = 0}
                   IN  /\ Cardinality(due) = 1
                       /\ \A r \in w..(w + before_long - 1) :
                              At(r) = before_long <=> r \in due

\* C4 witness: next_long() called after two full cycles of four rounds
C4_Witness ==
    /\ call.op = "next_long"
    /\ state.before_long = 4
    /\ state.round = 8
    /\ call.ret = 4

---------------------------------------------------------------------------
(* Properties of the Clock timer, checked under SpecClock *)

\* C5: within one phase (no reset() or set_duration() in between) and with a
\* wall clock that never goes back, seconds_remaining() is never negative, is
\* never larger than an earlier call's result, and is 0 exactly when is_done()
\* is true at the same instant.
C5_SecondsRemaining ==
    call.op = "seconds_remaining" =>
        /\ call.ret >= 0
        /\ call.prev # <<>> => call.ret <= call.prev[1]
        /\ call.ret = 0 <=> is_done(clock, call.at)

\* C5 witness: within one phase a positive seconds_remaining() is followed by
\* one that returns 0
C5_Witness ==
    /\ call.op = "seconds_remaining"
    /\ call.prev # <<>>
    /\ call.prev[1] > 0
    /\ call.ret = 0
    /\ clock.nano_seconds > 0

---------------------------------------------------------------------------
(* Properties of the geometry, checked under SpecGeom *)

\* C6: the hand slope is the vertical sentinel (NaN) for percent_elapsed = 0
\* and 0.5, and is 0 for percent_elapsed = 0.25 and 0.75.
C6_CardinalSlopes ==
    call.op = "get_slope" =>
        /\ arg_elapsed \in {0, 12} => call.ret.nan
        /\ arg_elapsed \in {6, 18} => FloatEq(call.ret, FloatOf(0))

\* what C7 says of the rim computed for diameter d
RimAsClaimed(d, cells) ==
    LET radius == d \div 2
        rim == {cells[i] : i \in 1..Len(cells)}
        Dist2(x, y) == (x - radius) * (x - radius) + (y - radius) * (y - radius)
    IN  /\ Coordinate(radius, radius) \in rim
        /\ \A c \in rim : c.x \in 0..d /\ c.y \in 0..d
        /\ \A x \in 0..d, y \in 0..d :
               <<x, y>> # <<radius, radius>> =>
                   (Coordinate(x, y) \in rim <=>
                       /\ (2 * radius - 1) * (2 * radius - 1) < 4 * Dist2(x, y)
                       /\ 4 * Dist2(x, y) < (2 * radius + 1) * (2 * radius + 1))
        /\ d = 10 =>
               {Coordinate(5, 0), Coordinate(10, 5), Coordinate(5, 10),
                Coordinate(0, 5)} \subseteq rim

\* C7: for a diameter d >= 2 and radius = d // 2, the rim holds the center
\* cell, and a cell (x, y) other than the center is in it if and only if
\* 0 <= x, y <= d and its distance to the center is strictly between
\* radius - 0.5 and radius + 0.5; for d = 10 it holds (5,0), (10,5), (5,10)
\* and (0,5).
C7_RimCells ==
    /\ (call.op = "clock_coordinates" /\ arg_diameter >= 2) =>
           RimAsClaimed(arg_diameter, call.ret)
    /\ (call.op = "provider" /\ arg_diameter >= 2) =>
           RimAsClaimed(arg_diameter, call.perimeter)

\* C7 witness: the rim of diameter 10 has been computed and holds (10,5)
C7_Witness ==
    /\ call.op = "clock_coordinates"
    /\ arg_diameter = 10
    /\ \E i \in 1..Len(call.ret) : call.ret[i] = Coordinate(10, 5)

\* C9: whenever the slope of the hand is the vertical sentinel, the hand is
\* the center column x = radius: every cell of that column, within the row
\* range of the selected quadrant, whose distance from the center is less
\* than radius * hand_length + 0.5; so the hand is not empty.
C9_VerticalHand ==
    (call.op = "hand_coordinates" /\ call.slope.nan) =>
        LET radius == arg_diameter \div 2
            upper == 4 * arg_elapsed <= 24 \/ arg_elapsed = 24 \/ 4 * arg_elapsed > 72
            rows == IF upper THEN 0..radius ELSE radius..arg_diameter
            hand == {call.ret[i] : i \in 1..Len(call.ret)}
        IN  /\ hand = {Coordinate(radius, y) : y \in
                          {y \in rows : 2 * Abs(y - radius) < radius + 1}}
            /\ hand # {}


---------------------------------------------------------------------------
(* SessionDisplay *)

MIN_CLOCK_DIAMETER == 4
MIN_SCREEN_WIDTH == 30 + MIN_CLOCK_DIAMETER
MIN_SCREEN_HEIGHT == MIN_CLOCK_DIAMETER + 1

\* the size test with "and" for "or"
too_small_both(height, width) ==
    width < MIN_SCREEN_WIDTH /\ height < MIN_SCREEN_HEIGHT

too_small(height, width) ==
    width < MIN_SCREEN_WIDTH \/ height < MIN_SCREEN_HEIGHT

\* the calls made on the curses screen; a text is the tuple of its pieces
\* and len its length in characters
Clear == [op |-> "clear"]
Refresh == [op |-> "refresh"]
addch(y, x) == [op |-> "addch", y |-> y, x |-> x]
addstr(y, x, text, len) ==
    [op |-> "addstr", y |-> y, x |-> x, text |-> text, len |-> len]

\* curses raises curses.error when asked to move the cursor outside of the
\* window; a text that starts inside it and runs over the right edge wraps
raises(write, height, width) ==
    /\ write.op \in {"addch", "addstr"}
    /\ ~(write.y \in 0..(height - 1) /\ write.x \in 0..(width - 1))

\* the pieces of f"{minutes:02}:{seconds:02}"
remaining_time_str(remaining_seconds) ==
    LET minutes == remaining_seconds \div 60
        seconds == remaining_seconds - minutes * 60
    IN  [text |-> <<minutes, ":", seconds>>,
         len  |-> Digits02(minutes) + 1 + Digits02(seconds)]

\* the addch calls of "for coord in clock.coordinates(clock_diameter)"
analog_writes(coords) ==
    [i \in 1..Len(coords) |-> addch(coords[i].y, coords[i].x)]

\* the addstr calls of the three status lines, each one row below the last
status_writes(a_display, x_padding, n_completed, n_next_long, remaining) ==
    LET completed_line ==
            IF a_display.show_completed
            THEN <<addstr(0, x_padding, <<"Rounds completed: ", n_completed>>,
                          18 + Digits(n_completed))>>
            ELSE <<>>
        next_long_line ==
            IF a_display.show_next_long
            THEN <<addstr(Len(completed_line), x_padding,
                          <<"Next long break in ", n_next_long, " round",
                            IF n_next_long # 1 THEN "s" ELSE "">>,
                          19 + Digits(n_next_long) + 6
                             + (IF n_next_long # 1 THEN 1 ELSE 0))>>
            ELSE <<>>
        digital_line ==
            IF a_display.show_digital
            THEN <<addstr(Len(completed_line) + Len(next_long_line), x_padding,
                          <<"Time remaining: ">> \o remaining.text \o <<"s">>,
                          16 + remaining.len + 1)>>
            ELSE <<>>
    IN  completed_line \o next_long_line \o digital_line

\* the writes made before the first one that raises, and whether one did
attempt(writes, height, width) ==
    LET failing == {i \in 1..Len(writes) : raises(writes[i], height, width)}
    IN  IF failing = {}
        THEN [frame |-> writes, error |-> FALSE]
        ELSE [frame |-> SubSeq(writes, 1,
                  (CHOOSE i \in failing : \A j \in failing : i <= j) - 1),
              error |-> TRUE]

\* x_padding after the clock of the given diameter
analog_padding(clock_diameter) ==
    clock_diameter + (IF clock_diameter % 2 = 0 THEN 2 ELSE 1)

\* redraw at time t on a terminal of the given size: the writes made, and
\* whether one of them raised curses.error and ended the frame
redraw(a_display, a_clock, a_state, t, height, width) ==
    IF too_small(height, width)
    THEN [frame |-> <<Clear, addstr(0, 0, <<"screen too small">>, 16), Refresh>>,
          error |-> FALSE]
    ELSE attempt(
             <<Clear>>
             \o (IF a_display.show_analog
                 THEN analog_writes(coordinates(a_clock, t, height - 1))
                 ELSE <<>>)
             \o status_writes(a_display,
                    IF a_display.show_analog THEN analog_padding(height - 1) ELSE 0,
                    completed(a_state), next_long(a_state),
                    remaining_time_str(seconds_remaining(a_clock, t)))
             \o <<Refresh>>,
             height, width)

---------------------------------------------------------------------------
(* Spec: the main loop *)

\* the wall clock of the main loop is counted up to MaxNow seconds
MaxNow == 600

\* the configurations the main loop is run with, in minutes and rounds
MainConfigs ==
    {[work_duration |-> 1, short_duration |-> s, long_duration |-> 3 - s,
      before_long |-> b] : s \in {1, 2}, b \in {2, 4}}

DisplayChoices ==
    {DefaultDisplay,
     [DefaultDisplay EXCEPT !.show_analog = FALSE],
     [show_completed |-> FALSE, show_next_long |-> FALSE,
      show_digital |-> FALSE, show_analog |-> TRUE]}

\* the (height, width) pairs getmaxyx may return
TerminalSizes ==
    {<<5, 20>>, <<4, 34>>, <<5, 34>>, <<10, 34>>, <<10, 40>>, <<36, 34>>}

\* time.sleep(REFRESH_RATE) returns after a tenth of a second or later; the
\* loop is woken at multiples of 15 seconds, where the hand stands at an angle
\* whose tangent MicroTan tabulates
SleepSeconds == {15, 30}

Init ==
    /\ config \in MainConfigs
    /\ display \in DisplayChoices
    /\ state = SessionState(config.work_duration, config.short_duration,
                            config.long_duration, config.before_long)
    /\ now = 0
    /\ clock = Clock(0, 50, now)
    /\ is_working = TRUE
    /\ duration = 0
    /\ pc = "fetch"
    /\ terminal = <<0, 0>>
    /\ frame = <<>>
    /\ error = FALSE
    /\ phase_log = <<>>
    /\ call = NoCall
    /\ last_remaining = <<>>
    /\ GeomIdle

\* duration = state.get_work() if is_working else state.get_break();
\* clock.set_duration(duration)
FetchDuration ==
    /\ pc = "fetch"
    /\ duration' = IF is_working THEN get_work(state) ELSE get_break(state)
    /\ clock' = set_duration(clock, duration')
    /\ phase_log' = Append(phase_log, IF is_working THEN "work" ELSE "break")
    /\ pc' = "loop"
    /\ UNCHANGED <<config, display, state, now, is_working, terminal, frame,
                   error, call, last_remaining, geomVars>>

\* the loop body once redraw has returned or raised: sleep unless it raised
Drawn(drawn, size, seconds) ==
    /\ terminal' = size
    /\ frame' = drawn.frame
    /\ error' = drawn.error
    /\ now' = IF drawn.error THEN now ELSE now + seconds * NANO_PER_SECOND
    /\ now' <= MaxNow * NANO_PER_SECOND

\* one pass of "while not clock.is_done()": redraw, then sleep unless the
\* redraw raised curses.error
LoopBody ==
    /\ pc = "loop"
    /\ ~is_done(clock, now)
    /\ \E size \in TerminalSizes, seconds \in SleepSeconds :
           Drawn(redraw(display, clock, state, now, size[1], size[2]),
                 size, seconds)
    /\ UNCHANGED <<config, display, state, clock, is_working, duration, pc,
                   phase_log, call, last_remaining, geomVars>>

\* the loop is left: increment after work, flip is_working, clock.reset()
EndPhase ==
    /\ pc = "loop"
    /\ is_done(clock, now)
    /\ state.round < MaxRound
    /\ state' = IF is_working THEN increment(state) ELSE state
    /\ is_working' = ~is_working
    /\ clock' = reset(clock, now)
    /\ pc' = "fetch"
    /\ UNCHANGED <<config, display, now, duration, terminal, frame, error,
                   phase_log, call, last_remaining, geomVars>>

Next ==
    \/ FetchDuration
    \/ LoopBody
    \/ EndPhase

Spec == Init /\ [][Next]_vars


---------------------------------------------------------------------------
(* Properties of the main loop, checked under Spec *)

\* the number of work phases entered so far
WorkPhasesEntered ==
    Cardinality({i \in 1..Len(phase_log) : phase_log[i] = "work"})

\* C2: with before_long = 4 and different configured short and long break
\* durations, once four work phases have been entered through get_work() the
\* duration get_break() returns for the break that follows is the configured
\* long-break value and not the configured short-break value.
C2_LongBreakAfterFourWorks ==
    (/\ config.before_long = 4
     /\ config.short_duration # config.long_duration
     /\ pc = "loop"
     /\ ~is_working
     /\ WorkPhasesEntered = 4) =>
        /\ duration = config.long_duration * 60
        /\ duration # config.short_duration * 60

\* C2 witness: the break after the fourth work phase has been fetched
C2_Witness ==
    /\ config.before_long = 4
    /\ config.short_duration # config.long_duration
    /\ pc = "loop"
    /\ ~is_working
    /\ WorkPhasesEntered = 4
    /\ state.round = 4

\* what C3 says of every state: the phases entered alternate, work first, and
\* the round counter is the number of work phases completed
PhasesAlternate ==
    /\ \A i \in 1..Len(phase_log) :
           phase_log[i] = IF i % 2 = 1 THEN "work" ELSE "break"
    /\ pc = "loop" =>
           phase_log[Len(phase_log)] = IF is_working THEN "work" ELSE "break"
    /\ completed(state) =
           WorkPhasesEntered - (IF pc = "loop" /\ is_working THEN 1 ELSE 0)

\* what C3 says of every step: the round counter grows by exactly 1 when a
\* work phase gives way to a break, and no other step changes it
RoundStep ==
    /\ (is_working /\ ~is_working') => state'.round = state.round + 1
    /\ ~(is_working /\ ~is_working') => state'.round = state.round
    /\ is_working' # is_working => (pc = "loop" /\ pc' = "fetch")

\* C3: the phases of the main loop alternate Work, Break, Work, ..., starting
\* with Work; the round counter is the number of Work phases completed so
\* far: it grows by exactly 1 at each Work-to-Break transition, no other step
\* changes it, and it never decreases or resets.
C3_RoundsCountWorkPhases == [](PhasesAlternate) /\ [][RoundStep]_vars

\* C3 witness: two work phases are completed and the third is under way
C3_Witness ==
    /\ pc = "loop"
    /\ is_working
    /\ Len(phase_log) = 5
    /\ state.round = 2
    /\ frame # <<>>

\* whether a write of the frame puts out the text "screen too small"
IsTooSmallText(write) ==
    write.op = "addstr" /\ write.len = 16 /\ write.text = <<"screen too small">>

\* C8: a redraw on a terminal narrower than 34 columns or lower than 5 rows
\* (20 columns by 5 rows, say) makes exactly three calls: clear, the text
\* "screen too small" at (0,0), and refresh; no clock cell and no status label
\* is drawn. The size is tested again on every redraw: on a terminal of at
\* least 34 by 5 the frame starts with clear and draws what is enabled (the
\* clock's center, the rounds line), never the text "screen too small".
C8_TooSmallFrame ==
    frame # <<>> =>
        IF terminal[2] < 34 \/ terminal[1] < 5
        THEN /\ frame = <<Clear, addstr(0, 0, <<"screen too small">>, 16), Refresh>>
             /\ ~error
        ELSE /\ frame[1] = Clear
             /\ \A i \in 1..Len(frame) : ~IsTooSmallText(frame[i])
             /\ display.show_analog =>
                    frame[2] = addch((terminal[1] - 1) \div 2,
                                     (terminal[1] - 1) \div 2)
             /\ (display.show_completed /\ ~error) =>
                    \E i \in 1..Len(frame) :
                        /\ frame[i].op = "addstr"
                        /\ frame[i].text[1] = "Rounds completed: "

\* C8 witness: a redraw on a terminal of 20 columns by 5 rows has drawn
\* the three calls
C8_Witness ==
    /\ terminal = <<5, 20>>
    /\ Len(frame) = 3
    /\ IsTooSmallText(frame[2])
    /\ pc = "loop"

\* C10: whenever the terminal passes the size test (width >= 34 and
\* height >= 5) and every display option is on, every write of redraw lies
\* inside the terminal: each clock cell (x, y) has 0 <= y < height and
\* 0 <= x < width, each status label ends at or before column width, and no
\* write raises.
C10_WritesInsideTerminal ==
    (/\ frame # <<>>
     /\ terminal[2] >= 34
     /\ terminal[1] >= 5
     /\ display = DefaultDisplay) =>
        /\ ~error
        /\ \A i \in 1..Len(frame) :
               /\ frame[i].op = "addch" =>
                      /\ frame[i].y \in 0..(terminal[1] - 1)
                      /\ frame[i].x \in 0..(terminal[2] - 1)
               /\ frame[i].op = "addstr" =>
                      /\ frame[i].y \in 0..(terminal[1] - 1)
                      /\ frame[i].x + frame[i].len <= terminal[2]


===========================================================================
